---- MODULE Spec2Model ----
(***************************************************************************)
(* A model of the vjoy crate: the thread-confinement lock (src/src/lock.rs) *)
(* the Interface entry point (src/src/interface.rs) and the device slots    *)
(* (src/src/device.rs), together with the part of the vJoy driver that the  *)
(* crate talks to.                                                          *)
(*                                                                          *)
(* Rust values that embed a VJoyLock (Interface, DeviceSlot,                *)
(* OwnedDeviceSlot, the iterator returned by device_slots) are kept in the  *)
(* bag `handles`; a VJoyLock is zero-sized, so two handles with equal       *)
(* fields are interchangeable.  VJoyLock is neither Send nor Sync, hence    *)
(* every handle stays on the thread that created it (field `thread`).       *)
(***************************************************************************)
EXTENDS Bags, FiniteSets, Integers, Sequences, TLC

\* ------------------------------------------------------------------ bounds
NumThreads == 2
MaxHandles == 2

\* ------------------------------------------------------- program constants
U8Max == 255
NumButtons == 128
WordBits == 32

VARIABLES
    LOCKED,       \* lock.rs: static LOCKED: AtomicBool
    REFS,         \* lock.rs: static mut REFS: usize
    handles,      \* bag of live values that embed a VJoyLock
    pc,           \* per thread: position inside VJoyLock::new / drop
    ctx,          \* per thread: the public operation in progress and its result
    acquired,     \* driver: slot ids this process has acquired
    drvState,     \* driver: per slot id, the last JOYSTICK_POSITION received
    assertFailed, \* a debug_assert of lock.rs failed
    closer,       \* the thread whose drop closed LOCKED, until the next mint; else 0
    last          \* the step just taken: who, which operation, result, driver calls

vars == <<LOCKED, REFS, handles, pc, ctx, acquired, drvState, assertFailed,
          closer, last>>

Threads == 1..NumThreads
DeviceIds == 1..U8Max
\* the slot counts GetvJoyMaxDevices reports (256 does not fit a u8)
SlotCounts == {0, 2, U8Max + 1}
\* the slots of the driver
SlotIds == 1..2

\* ------------------------------------------------------------ device.rs data
Axes == {"X", "Y", "Z", "RX", "RY", "RZ", "Slider", "Dial",
         "Accelerator", "Aileron", "Brake", "Clutch", "Rudder", "Steering",
         "Throttle", "Wheel"}

\* OwnedDeviceSlot::new: bDevice is the id, everything else mem::zeroed()
ZeroedPosition(id) ==
    [bDevice |-> id,
     wAxisX |-> 0, wAxisY |-> 0, wAxisZ |-> 0,
     wAxisXRot |-> 0, wAxisYRot |-> 0, wAxisZRot |-> 0,
     wSlider |-> 0, wDial |-> 0,
     wAccelerator |-> 0, wAileron |-> 0, wBrake |-> 0, wClutch |-> 0,
     wRudder |-> 0, wSteering |-> 0, wThrottle |-> 0, wWheel |-> 0,
     lButtons |-> 0, lButtonsEx1 |-> 0, lButtonsEx2 |-> 0, lButtonsEx3 |-> 0]

\* the state field of a handle that is not an OwnedDeviceSlot, and the
\* driver's position of a slot that never received an update (no id is 0)
NoPosition == ZeroedPosition(0)

\* DeviceId::from_raw: Some(raw).and_then(NonZeroU8::new)
from_raw(raw) ==
    IF raw = 0 THEN [err |-> "Zero", id |-> 0] ELSE [err |-> "", id |-> raw]

\* DeviceId::from_index: index.checked_add(1), try_into u8, NonZeroU8::new
from_index(index) ==
    IF index + 1 > U8Max THEN [err |-> "TooLarge", id |-> 0]
    ELSE [err |-> "", id |-> index + 1]

\* DeviceId::to_raw
to_raw(id) == id

\* DeviceId::to_index: self.to_raw() as usize + 1
to_index(id) == to_raw(id) + 1

\* a DeviceId returned to the caller (a Copy value, it embeds no lock)
IdValue(id) ==
    [kind |-> "DeviceId", thread |-> 0, id |-> id, next |-> 0, end |-> 0,
     state |-> NoPosition]

\* ------------------------------------------------------------------ handles
InterfaceValue(t) ==
    [kind |-> "Interface", thread |-> t, id |-> 0, next |-> 0, end |-> 0,
     state |-> NoPosition]

\* DeviceSlot::new
DeviceSlotValue(t, id) ==
    [kind |-> "DeviceSlot", thread |-> t, id |-> id, next |-> 0, end |-> 0,
     state |-> NoPosition]

\* mutant: the position is tagged with the index of the id (usize::from)
OwnedDeviceSlotValueIndexTag(slot) ==
    [slot EXCEPT !.kind = "OwnedDeviceSlot",
                 !.state = ZeroedPosition(to_index(slot.id))]

\* OwnedDeviceSlot::new
OwnedDeviceSlotValue(slot) ==
    [slot EXCEPT !.kind = "OwnedDeviceSlot",
                 !.state = ZeroedPosition(to_raw(slot.id))]

\* the iterator of device_slots: the range next..end and a captured lock
SlotsIterValue(t, n) ==
    [kind |-> "SlotsIter", thread |-> t, id |-> 0, next |-> 0, end |-> n,
     state |-> NoPosition]

Live == BagToSet(handles)
NumLive == BagCardinality(handles)
Put(h) == handles (+) SetToBag({h})
Take(h) == handles (-) SetToBag({h})

\* tokens that a thread holds outside any handle: the lock minted by
\* Interface::new before it is wrapped, and a lock whose drop has started
LocalTokens(t) == IF pc[t] \in {"new_enabled", "drop_refs"} THEN 1 ELSE 0

RECURSIVE Copies(_)
Copies(S) ==
    IF S = {} THEN 0
    ELSE LET h == CHOOSE x \in S : TRUE
         IN CopiesIn(h, handles) + Copies(S \ {h})

\* number of live VJoyLock values on thread t
Held(t) == Copies({h \in Live : h.thread = t}) + LocalTokens(t)

RECURSIVE SumHeld(_)
SumHeld(T) ==
    IF T = {} THEN 0
    ELSE LET t == CHOOSE x \in T : TRUE IN Held(t) + SumHeld(T \ {t})

\* number of live VJoyLock values in the process
LiveTokens == SumHeld(Threads)

\* a BOOL of the driver's C interface
Bool(b) == IF b THEN 1 ELSE 0

\* ------------------------------------------------------------------- events
NoCtx == [op |-> "", res |-> ""]
Idle(t) == pc[t] = "idle"

\* a driver call made by the step: the function, its slot argument, and what
\* the lock looked like when the call was made
\* (`reply`: the BOOL or status the driver returned, 0 for a void function;
\* `minted`: tokens the same step cloned before the call)
Call(t, fn, id, reply, minted) ==
    [fn |-> fn, id |-> id, reply |-> reply, thread |-> t, locked |-> LOCKED,
     refs |-> REFS + minted, held |-> Held(t) + minted,
     foreign |-> LiveTokens - Held(t)]

\* `val` is the handle the operation returned (the handle it consumed, for a
\* drop; the handle it pushed, for apply), NoHandle if there is none
NoHandle ==
    [kind |-> "None", thread |-> 0, id |-> 0, next |-> 0, end |-> 0,
     state |-> NoPosition]

Event(t, op, res, val, calls) ==
    [thread |-> t, op |-> op, res |-> res, val |-> val, calls |-> calls]

Init ==
    /\ LOCKED = FALSE
    /\ REFS = 0
    /\ handles = EmptyBag
    /\ pc = [t \in Threads |-> "idle"]
    /\ ctx = [t \in Threads |-> NoCtx]
    /\ acquired = {}
    /\ drvState = [id \in SlotIds |-> NoPosition]
    /\ assertFailed = FALSE
    /\ closer = 0
    /\ last = Event(0, "init", "", NoHandle, <<>>)

\* a step that completes the public operation `op` of thread t
Return(t, op, res, val, calls) ==
    /\ pc' = [pc EXCEPT ![t] = "idle"]
    /\ ctx' = [ctx EXCEPT ![t] = NoCtx]
    /\ last' = Event(t, op, res, val, calls)

\* a step after which thread t runs Drop for VJoyLock on one token, the
\* public operation returning `res` once the drop is over
ThenDrop(t, op, res, val, calls) ==
    /\ pc' = [pc EXCEPT ![t] = "drop_refs"]
    /\ ctx' = [ctx EXCEPT ![t] = [op |-> op, res |-> res]]
    /\ last' = Event(t, op, "", val, calls)

\* ---------------------------------------------------------------- lock.rs
\* mutant: the flag is swapped to true and the old value is ignored
CompareExchangeBlind(locked) == TRUE

\* VJoyLock::new, line 31: LOCKED.compare_exchange(false, true, ..).is_ok()
CompareExchangeOk(locked) == locked = FALSE

\* VJoyLock::new, line 37: REFS = 1
MintRefs == 1

\* mutant: clone forgets to count the new token
CloneRefsForgot(refs) == refs

\* Clone for VJoyLock, line 51: REFS += 1
CloneRefs(refs) == refs + 1

\* mutant: drop takes two off the counter
DropRefsTwice(refs) == refs - 2

\* Drop for VJoyLock, line 63: REFS -= 1
DropRefs(refs) == refs - 1

\* mutant: the flag is released while one token is still live
UnlockOffByOne(refs) == refs <= 1

\* mutant: the last drop forgets to release the flag
UnlockNever(refs) == FALSE

\* Drop for VJoyLock, line 67: the value of `unlock`
Unlock(refs) == refs = 0

\* VJoyLock::new, the compare-exchange.  On failure new() returns None and
\* Interface::new returns Err(Locked) through `?`.
LockNewCas(t) ==
    /\ Idle(t)
    /\ LOCKED \/ NumLive < MaxHandles
    /\ IF CompareExchangeOk(LOCKED)
       THEN /\ LOCKED' = TRUE
            /\ pc' = [pc EXCEPT ![t] = "new_refs"]
            /\ ctx' = [ctx EXCEPT ![t] = [op |-> "Interface::new", res |-> ""]]
            /\ last' = Event(t, "VJoyLock::new", "cas_ok", NoHandle, <<>>)
       ELSE /\ Return(t, "Interface::new", "Locked", NoHandle, <<>>)
            /\ UNCHANGED LOCKED
    /\ UNCHANGED <<REFS, handles, acquired, drvState, assertFailed, closer>>

\* VJoyLock::new, the unsafe block: debug_assert_eq!(REFS, 0); REFS = 1
LockNewRefs(t) ==
    /\ pc[t] = "new_refs"
    /\ assertFailed' = (assertFailed \/ REFS # 0)
    /\ REFS' = MintRefs
    /\ pc' = [pc EXCEPT ![t] = "new_enabled"]
    /\ last' = Event(t, "VJoyLock::new", "Some", NoHandle, <<>>)
    /\ closer' = 0
    /\ UNCHANGED <<LOCKED, handles, ctx, acquired, drvState>>

\* Drop for VJoyLock, the unsafe block: debug_assert!(REFS > 0); REFS -= 1;
\* unlock = (REFS == 0).  A usize cannot go below zero: the decrement of a
\* zero counter is reported through assertFailed and leaves it at zero.
LockDropRefs(t) ==
    /\ pc[t] = "drop_refs"
    /\ assertFailed' = (assertFailed \/ ~(REFS > 0))
    /\ REFS' = IF DropRefs(REFS) < 0 THEN 0 ELSE DropRefs(REFS)
    /\ IF Unlock(REFS')
       THEN /\ pc' = [pc EXCEPT ![t] = "drop_store"]
            /\ last' = Event(t, "VJoyLock::drop", "unlock", NoHandle, <<>>)
            /\ UNCHANGED ctx
       ELSE Return(t, ctx[t].op, ctx[t].res, NoHandle, <<>>)
    /\ UNCHANGED <<LOCKED, handles, acquired, drvState, closer>>

\* Drop for VJoyLock, line 71: LOCKED.store(false, Release)
LockDropStore(t) ==
    /\ pc[t] = "drop_store"
    /\ LOCKED' = FALSE
    /\ closer' = t
    /\ Return(t, ctx[t].op, ctx[t].res, NoHandle, <<>>)
    /\ UNCHANGED <<REFS, handles, acquired, drvState, assertFailed>>

\* ------------------------------------------------------------- the driver
\* AcquireVJD grants a slot to one owner at a time; it may also refuse a
\* free slot (no device configured there, or another process owns it)
DrvAcquireOk(id, grant) == grant /\ id \in SlotIds /\ id \notin acquired

\* RelinquishVJD returns the slot to the driver: the slots this process
\* still has after the driver calls of one step
DrvRelinquish(calls) ==
    acquired \ {calls[i].id : i \in {j \in DOMAIN calls :
                                     calls[j].fn = "RelinquishVJD"}}

\* UpdateVJD accepts a position only for a slot this process has acquired
DrvUpdateOk(id, accept) == accept /\ id \in acquired

\* ----------------------------------------------------------- interface.rs
\* Interface::num_slots: success.then_some(num).ok_or(Failed), u8::try_from
num_slots(ok, n) ==
    IF ~ok THEN [err |-> "Failed", n |-> 0]
    ELSE IF n < 0 \/ n > U8Max THEN [err |-> "Invalid", n |-> 0]
    ELSE [err |-> "", n |-> n]

\* mutant: the Interface is built whatever vJoyEnabled reported
InterfaceNewUnchecked(t, enabled) ==
    /\ pc[t] = "new_enabled"
    /\ handles' = Put(InterfaceValue(t))
    /\ Return(t, "Interface::new", "Ok", InterfaceValue(t),
              <<Call(t, "vJoyEnabled", 0, Bool(enabled), 0)>>)
    /\ UNCHANGED <<LOCKED, REFS, acquired, drvState, assertFailed, closer>>

\* mutant: the lock of a refused Interface::new is forgotten, not dropped
InterfaceNewLeak(t, enabled) ==
    /\ pc[t] = "new_enabled"
    /\ LET calls == <<Call(t, "vJoyEnabled", 0, Bool(enabled), 0)>> IN
       IF enabled
       THEN /\ handles' = Put(InterfaceValue(t))
            /\ Return(t, "Interface::new", "Ok", InterfaceValue(t), calls)
       ELSE /\ Return(t, "Interface::new", "NotAvailable", NoHandle, calls)
            /\ UNCHANGED handles
    /\ UNCHANGED <<LOCKED, REFS, acquired, drvState, assertFailed, closer>>

\* Interface::new after VJoyLock::new: vJoyEnabled() != 0, then
\* enabled.then_some(Interface { lock }).ok_or(NotAvailable); the lock is
\* dropped when no Interface is built from it
InterfaceNew(t, enabled) ==
    /\ pc[t] = "new_enabled"
    /\ LET calls == <<Call(t, "vJoyEnabled", 0, Bool(enabled), 0)>> IN
       IF enabled
       THEN /\ handles' = Put(InterfaceValue(t))
            /\ Return(t, "Interface::new", "Ok", InterfaceValue(t), calls)
       ELSE /\ ThenDrop(t, "Interface::new", "NotAvailable", NoHandle, calls)
            /\ UNCHANGED handles
    /\ UNCHANGED <<LOCKED, REFS, acquired, drvState, assertFailed, closer>>

\* DeviceId::from_raw and DeviceId::from_index called by thread t: public
\* associated functions, they need no handle
DeviceIdFromRaw(t, raw) ==
    /\ Idle(t)
    /\ LET conv == from_raw(raw) IN
       Return(t, "DeviceId::from_raw", IF conv.err # "" THEN conv.err ELSE "Ok",
              IdValue(conv.id), <<>>)
    /\ UNCHANGED <<LOCKED, REFS, handles, acquired, drvState, assertFailed,
                   closer>>

DeviceIdFromIndex(t, index) ==
    /\ Idle(t)
    /\ LET conv == from_index(index) IN
       Return(t, "DeviceId::from_index",
              IF conv.err # "" THEN conv.err ELSE "Ok", IdValue(conv.id), <<>>)
    /\ UNCHANGED <<LOCKED, REFS, handles, acquired, drvState, assertFailed,
                   closer>>

\* thread t can use handle h: it lives on t and t is between operations
Owns(t, h) == Idle(t) /\ h \in Live /\ h.thread = t

\* #[derive(Clone)] on Interface: clones the lock
InterfaceClone(t, h) ==
    /\ Owns(t, h) /\ h.kind = "Interface"
    /\ NumLive < MaxHandles
    /\ REFS' = CloneRefs(REFS)
    /\ handles' = Put(InterfaceValue(t))
    /\ Return(t, "Interface::clone", "Ok", InterfaceValue(t), <<>>)
    /\ UNCHANGED <<LOCKED, acquired, drvState, assertFailed, closer>>

\* Interface::device_slot with a u8 argument (TryFrom<RawDeviceId>)
InterfaceDeviceSlot(t, h, raw, ok, n) ==
    /\ Owns(t, h) /\ h.kind = "Interface"
    /\ LET conv == from_raw(raw)
           id == conv.id
           count == num_slots(ok, n)
           calls == <<Call(t, "GetvJoyMaxDevices", 0, Bool(ok), 0)>>
       IN
       IF conv.err # ""
       THEN /\ Return(t, "Interface::device_slot", "None", NoHandle, <<>>)
            /\ UNCHANGED <<REFS, handles>>
       ELSE IF count.err # ""
       THEN /\ Return(t, "Interface::device_slot", count.err, NoHandle, calls)
            /\ UNCHANGED <<REFS, handles>>
       ELSE IF count.n >= to_index(id)
       THEN /\ NumLive < MaxHandles
            /\ REFS' = CloneRefs(REFS)
            /\ handles' = Put(DeviceSlotValue(t, id))
            /\ Return(t, "Interface::device_slot", "Some",
                      DeviceSlotValue(t, id), calls)
       ELSE /\ Return(t, "Interface::device_slot", "None", NoHandle, calls)
            /\ UNCHANGED <<REFS, handles>>
    /\ UNCHANGED <<LOCKED, acquired, drvState, assertFailed, closer>>

\* Interface::device_slots: self.lock.clone(), then 0..self.num_slots()?;
\* an early return drops the clone
InterfaceDeviceSlots(t, h, ok, n) ==
    /\ Owns(t, h) /\ h.kind = "Interface"
    /\ NumLive < MaxHandles
    /\ REFS' = CloneRefs(REFS)
    /\ LET count == num_slots(ok, n)
           calls == <<Call(t, "GetvJoyMaxDevices", 0, Bool(ok), 1)>>
       IN
       IF count.err # ""
       THEN /\ ThenDrop(t, "Interface::device_slots", count.err, NoHandle, calls)
            /\ UNCHANGED handles
       ELSE /\ handles' = Put(SlotsIterValue(t, count.n))
            /\ Return(t, "Interface::device_slots", "Ok",
                      SlotsIterValue(t, count.n), calls)
    /\ UNCHANGED <<LOCKED, acquired, drvState, assertFailed, closer>>

\* mutant: the closure of device_slots takes the 0-based index for the raw id
SlotsIterNextRawIndex(t, h) ==
    /\ Owns(t, h) /\ h.kind = "SlotsIter"
    /\ IF h.next < h.end /\ from_raw(h.next).err = ""
       THEN LET slot == DeviceSlotValue(t, from_raw(h.next).id) IN
            /\ NumLive < MaxHandles
            /\ REFS' = CloneRefs(REFS)
            /\ handles' = Take(h) (+) SetToBag({[h EXCEPT !.next = @ + 1]})
                                  (+) SetToBag({slot})
            /\ Return(t, "SlotsIter::next", "Some", slot, <<>>)
       ELSE /\ Return(t, "SlotsIter::next",
                      IF h.next < h.end THEN "panic" ELSE "None", NoHandle, <<>>)
            /\ UNCHANGED <<REFS, handles>>
    /\ UNCHANGED <<LOCKED, acquired, drvState, assertFailed, closer>>

\* next() on the iterator of device_slots:
\* DeviceSlot::new(DeviceId::from_index(id).unwrap(), lock.clone())
SlotsIterNext(t, h) ==
    /\ Owns(t, h) /\ h.kind = "SlotsIter"
    /\ IF h.next < h.end /\ from_index(h.next).err = ""
       THEN LET slot == DeviceSlotValue(t, from_index(h.next).id) IN
            /\ NumLive < MaxHandles
            /\ REFS' = CloneRefs(REFS)
            /\ handles' = Take(h) (+) SetToBag({[h EXCEPT !.next = @ + 1]})
                                  (+) SetToBag({slot})
            /\ Return(t, "SlotsIter::next", "Some", slot, <<>>)
       ELSE /\ Return(t, "SlotsIter::next",
                      IF h.next < h.end THEN "panic" ELSE "None", NoHandle, <<>>)
            /\ UNCHANGED <<REFS, handles>>
    /\ UNCHANGED <<LOCKED, acquired, drvState, assertFailed, closer>>

\* next_back() on the iterator of device_slots (DoubleEndedIterator)
SlotsIterNextBack(t, h) ==
    /\ Owns(t, h) /\ h.kind = "SlotsIter"
    /\ IF h.next < h.end /\ from_index(h.end - 1).err = ""
       THEN LET slot == DeviceSlotValue(t, from_index(h.end - 1).id) IN
            /\ NumLive < MaxHandles
            /\ REFS' = CloneRefs(REFS)
            /\ handles' = Take(h) (+) SetToBag({[h EXCEPT !.end = @ - 1]})
                                  (+) SetToBag({slot})
            /\ Return(t, "SlotsIter::next_back", "Some", slot, <<>>)
       ELSE /\ Return(t, "SlotsIter::next_back",
                      IF h.next < h.end THEN "panic" ELSE "None", NoHandle, <<>>)
            /\ UNCHANGED <<REFS, handles>>
    /\ UNCHANGED <<LOCKED, acquired, drvState, assertFailed, closer>>

\* an Interface, a DeviceSlot or the iterator goes out of scope: its lock
\* field is dropped
DropHandle(t, h) ==
    /\ Owns(t, h) /\ h.kind \in {"Interface", "DeviceSlot", "SlotsIter"}
    /\ handles' = Take(h)
    /\ ThenDrop(t, "drop", "Ok", h, <<>>)
    /\ UNCHANGED <<LOCKED, REFS, acquired, drvState, assertFailed, closer>>

\* --------------------------------------------------------------- device.rs
\* #[derive(Clone)] on DeviceSlot; an OwnedDeviceSlot derefs to its slot
DeviceSlotClone(t, h) ==
    /\ Owns(t, h) /\ h.kind \in {"DeviceSlot", "OwnedDeviceSlot"}
    /\ NumLive < MaxHandles
    /\ REFS' = CloneRefs(REFS)
    /\ handles' = Put(DeviceSlotValue(t, h.id))
    /\ Return(t, "DeviceSlot::clone", "Ok", DeviceSlotValue(t, h.id), <<>>)
    /\ UNCHANGED <<LOCKED, acquired, drvState, assertFailed, closer>>

\* mutant: the Interface is built from the slot's lock without cloning it
DeviceSlotInterfaceUncounted(t, h) ==
    /\ Owns(t, h) /\ h.kind \in {"DeviceSlot", "OwnedDeviceSlot"}
    /\ NumLive < MaxHandles
    /\ handles' = Put(InterfaceValue(t))
    /\ Return(t, "DeviceSlot::interface", "Ok", InterfaceValue(t), <<>>)
    /\ UNCHANGED <<LOCKED, REFS, acquired, drvState, assertFailed, closer>>

\* DeviceSlot::interface: Interface::from_lock(self.lock.clone())
DeviceSlotInterface(t, h) ==
    /\ Owns(t, h) /\ h.kind \in {"DeviceSlot", "OwnedDeviceSlot"}
    /\ NumLive < MaxHandles
    /\ REFS' = CloneRefs(REFS)
    /\ handles' = Put(InterfaceValue(t))
    /\ Return(t, "DeviceSlot::interface", "Ok", InterfaceValue(t), <<>>)
    /\ UNCHANGED <<LOCKED, acquired, drvState, assertFailed, closer>>

\* mutant: the reply of AcquireVJD is ignored
AcquireResultUnchecked(h, ok) == OwnedDeviceSlotValue(h)

\* mutant: the position buffer is built before the reply is looked at and
\* stays with the handle that is handed back
AcquireResultBuffered(h, ok) ==
    IF ok THEN OwnedDeviceSlotValue(h)
    ELSE [h EXCEPT !.state = ZeroedPosition(to_raw(h.id))]

\* DeviceSlot::acquire, the handle it returns: Ok(OwnedDeviceSlot::new(self))
\* when AcquireVJD reported success, Err(self) otherwise
AcquireResult(h, ok) == IF ok THEN OwnedDeviceSlotValue(h) ELSE h

\* DeviceSlot::acquire
DeviceSlotAcquire(t, h, grant) ==
    /\ Owns(t, h) /\ h.kind = "DeviceSlot"
    /\ LET ok == DrvAcquireOk(to_raw(h.id), grant) IN
       /\ handles' = Take(h) (+) SetToBag({AcquireResult(h, ok)})
       /\ acquired' = IF ok THEN acquired \cup {to_raw(h.id)} ELSE acquired
       /\ Return(t, "DeviceSlot::acquire", IF ok THEN "Ok" ELSE "Err",
                 AcquireResult(h, ok),
                 <<Call(t, "AcquireVJD", to_raw(h.id), Bool(ok), 0)>>)
    /\ UNCHANGED <<LOCKED, REFS, drvState, assertFailed, closer>>

\* the raw values GetVJDStatus returns: VJD_STAT_OWN, FREE, BUSY, MISS, UNKN
StatusName(raw) ==
    CASE raw = 0 -> "Acquired"
      [] raw = 1 -> "Free"
      [] raw = 2 -> "Busy"
      [] raw = 3 -> "Missing"
      [] raw = 4 -> "Unknown"
      [] OTHER -> "panic"

\* DeviceSlot::status: Status::try_from(raw).expect(..)
DeviceSlotStatus(t, h, raw) ==
    /\ Owns(t, h) /\ h.kind \in {"DeviceSlot", "OwnedDeviceSlot"}
    /\ Return(t, "DeviceSlot::status", StatusName(raw), NoHandle,
              <<Call(t, "GetVJDStatus", to_raw(h.id), raw, 0)>>)
    /\ UNCHANGED <<LOCKED, REFS, handles, acquired, drvState, assertFailed, closer>>

\* mutant: axis_range refuses the range of a single value, min == max
axis_rangeStrict(minOk, min, maxOk, max) ==
    IF ~minOk THEN [err |-> "MinFailure", lo |-> 0, hi |-> 0]
    ELSE IF ~maxOk THEN [err |-> "MaxFailure", lo |-> 0, hi |-> 0]
    ELSE IF min < max THEN [err |-> "", lo |-> min, hi |-> max]
    ELSE [err |-> "Invalid", lo |-> 0, hi |-> 0]

\* DeviceSlot::axis_range (without feature const-range)
axis_range(minOk, min, maxOk, max) ==
    IF ~minOk THEN [err |-> "MinFailure", lo |-> 0, hi |-> 0]
    ELSE IF ~maxOk THEN [err |-> "MaxFailure", lo |-> 0, hi |-> 0]
    ELSE IF min <= max THEN [err |-> "", lo |-> min, hi |-> max]
    ELSE [err |-> "Invalid", lo |-> 0, hi |-> 0]

\* the driver calls of axis_range: the maximum is asked only after the
\* minimum was reported
RangeCalls(t, h, minOk, maxOk) ==
    IF minOk
    THEN <<Call(t, "GetVJDAxisMin", to_raw(h.id), 1, 0),
           Call(t, "GetVJDAxisMax", to_raw(h.id), Bool(maxOk), 0)>>
    ELSE <<Call(t, "GetVJDAxisMin", to_raw(h.id), 0, 0)>>

\* DeviceSlot::axis_range as a step (an OwnedDeviceSlot derefs to its slot)
DeviceSlotAxisRange(t, h, axis, minOk, min, maxOk, max) ==
    /\ Owns(t, h) /\ h.kind \in {"DeviceSlot", "OwnedDeviceSlot"}
    /\ axis \in Axes
    /\ LET range == axis_range(minOk, min, maxOk, max) IN
       Return(t, "axis_range", IF range.err # "" THEN range.err ELSE "Ok",
              NoHandle, RangeCalls(t, h, minOk, maxOk))
    /\ UNCHANGED <<LOCKED, REFS, handles, acquired, drvState, assertFailed,
                   closer>>

\* OwnedDeviceSlot::get_axis_raw
get_axis_raw(state, axis) ==
    CASE axis = "X" -> state.wAxisX
      [] axis = "Y" -> state.wAxisY
      [] axis = "Z" -> state.wAxisZ
      [] axis = "RX" -> state.wAxisXRot
      [] axis = "RY" -> state.wAxisYRot
      [] axis = "RZ" -> state.wAxisZRot
      [] axis = "Slider" -> state.wSlider
      [] axis = "Dial" -> state.wDial
      [] axis = "Accelerator" -> state.wAccelerator
      [] axis = "Aileron" -> state.wAileron
      [] axis = "Brake" -> state.wBrake
      [] axis = "Clutch" -> state.wClutch
      [] axis = "Rudder" -> state.wRudder
      [] axis = "Steering" -> state.wSteering
      [] axis = "Throttle" -> state.wThrottle
      [] axis = "Wheel" -> state.wWheel

\* mutant: the arm of Axis::RY writes the field of Axis::RZ
set_axisMisplaced(state, axis, value) ==
    CASE axis = "X" -> [state EXCEPT !.wAxisX = value]
      [] axis = "Y" -> [state EXCEPT !.wAxisY = value]
      [] axis = "Z" -> [state EXCEPT !.wAxisZ = value]
      [] axis = "RX" -> [state EXCEPT !.wAxisXRot = value]
      [] axis = "RY" -> [state EXCEPT !.wAxisZRot = value]
      [] axis = "RZ" -> [state EXCEPT !.wAxisZRot = value]
      [] axis = "Slider" -> [state EXCEPT !.wSlider = value]
      [] axis = "Dial" -> [state EXCEPT !.wDial = value]
      [] axis = "Accelerator" -> [state EXCEPT !.wAccelerator = value]
      [] axis = "Aileron" -> [state EXCEPT !.wAileron = value]
      [] axis = "Brake" -> [state EXCEPT !.wBrake = value]
      [] axis = "Clutch" -> [state EXCEPT !.wClutch = value]
      [] axis = "Rudder" -> [state EXCEPT !.wRudder = value]
      [] axis = "Steering" -> [state EXCEPT !.wSteering = value]
      [] axis = "Throttle" -> [state EXCEPT !.wThrottle = value]
      [] axis = "Wheel" -> [state EXCEPT !.wWheel = value]

\* OwnedDeviceSlot::set_axis
set_axis(state, axis, value) ==
    CASE axis = "X" -> [state EXCEPT !.wAxisX = value]
      [] axis = "Y" -> [state EXCEPT !.wAxisY = value]
      [] axis = "Z" -> [state EXCEPT !.wAxisZ = value]
      [] axis = "RX" -> [state EXCEPT !.wAxisXRot = value]
      [] axis = "RY" -> [state EXCEPT !.wAxisYRot = value]
      [] axis = "RZ" -> [state EXCEPT !.wAxisZRot = value]
      [] axis = "Slider" -> [state EXCEPT !.wSlider = value]
      [] axis = "Dial" -> [state EXCEPT !.wDial = value]
      [] axis = "Accelerator" -> [state EXCEPT !.wAccelerator = value]
      [] axis = "Aileron" -> [state EXCEPT !.wAileron = value]
      [] axis = "Brake" -> [state EXCEPT !.wBrake = value]
      [] axis = "Clutch" -> [state EXCEPT !.wClutch = value]
      [] axis = "Rudder" -> [state EXCEPT !.wRudder = value]
      [] axis = "Steering" -> [state EXCEPT !.wSteering = value]
      [] axis = "Throttle" -> [state EXCEPT !.wThrottle = value]
      [] axis = "Wheel" -> [state EXCEPT !.wWheel = value]

\* replace the position of an OwnedDeviceSlot (its RefCell)
WithState(h, state) == Take(h) (+) SetToBag({[h EXCEPT !.state = state]})

\* mutant: set_axis_raw also sends the position to the driver
OwnedSetAxisRawPush(t, h, axis, value, minOk, min, maxOk, max) ==
    /\ Owns(t, h) /\ h.kind = "OwnedDeviceSlot"
    /\ LET range == axis_range(minOk, min, maxOk, max)
           calls == RangeCalls(t, h, minOk, maxOk)
           state == set_axis(h.state, axis, value)
       IN
       IF range.err # "" \/ ~(range.lo <= value /\ value <= range.hi)
       THEN /\ Return(t, "set_axis_raw",
                      IF range.err # "" THEN range.err ELSE "Value", NoHandle, calls)
            /\ UNCHANGED <<handles, drvState>>
       ELSE /\ handles' = WithState(h, state)
            /\ drvState' = [drvState EXCEPT ![to_raw(h.id)] = state]
            /\ Return(t, "set_axis_raw", "Ok", NoHandle, calls)
    /\ UNCHANGED <<LOCKED, REFS, acquired, assertFailed, closer>>

\* mutant: set_axis_raw clamps an out-of-range value into the range, writes
\* it and then reports the Value error
OwnedSetAxisRawClamp(t, h, axis, value, minOk, min, maxOk, max) ==
    /\ Owns(t, h) /\ h.kind = "OwnedDeviceSlot"
    /\ LET range == axis_range(minOk, min, maxOk, max)
           calls == RangeCalls(t, h, minOk, maxOk)
           clamped == IF value < range.lo THEN range.lo ELSE range.hi
       IN
       IF range.err # ""
       THEN /\ Return(t, "set_axis_raw", range.err, NoHandle, calls)
            /\ UNCHANGED handles
       ELSE IF ~(range.lo <= value /\ value <= range.hi)
       THEN /\ Return(t, "set_axis_raw", "Value", NoHandle, calls)
            /\ handles' = WithState(h, set_axis(h.state, axis, clamped))
       ELSE /\ handles' = WithState(h, set_axis(h.state, axis, value))
            /\ Return(t, "set_axis_raw", "Ok", NoHandle, calls)
    /\ UNCHANGED <<LOCKED, REFS, acquired, drvState, assertFailed, closer>>

\* OwnedDeviceSlot::set_axis_raw
OwnedSetAxisRaw(t, h, axis, value, minOk, min, maxOk, max) ==
    /\ Owns(t, h) /\ h.kind = "OwnedDeviceSlot"
    /\ LET range == axis_range(minOk, min, maxOk, max)
           calls == RangeCalls(t, h, minOk, maxOk)
       IN
       IF range.err # ""
       THEN /\ Return(t, "set_axis_raw", range.err, NoHandle, calls)
            /\ UNCHANGED handles
       ELSE IF ~(range.lo <= value /\ value <= range.hi)
       THEN /\ Return(t, "set_axis_raw", "Value", NoHandle, calls)
            /\ UNCHANGED handles
       ELSE /\ handles' = WithState(h, set_axis(h.state, axis, value))
            /\ Return(t, "set_axis_raw", "Ok", NoHandle, calls)
    /\ UNCHANGED <<LOCKED, REFS, acquired, drvState, assertFailed, closer>>

\* ------------------------------------------------------------ f32 arithmetic
\* An f32 is modelled exactly as a dyadic rational n / 2^k (or NaN); the
\* operators below round to the 24-bit significand of an f32, ties to even.
F32MantBits == 24
Pow2(k) == 2 ^ k
F32(n, k) == [nan |-> FALSE, n |-> n, k |-> k]
NaN == [nan |-> TRUE, n |-> 0, k |-> 0]

RECURSIVE BitLen(_)
BitLen(n) == IF n = 0 THEN 0 ELSE 1 + BitLen(n \div 2)

\* the nearest integer with at most 24 significant bits, ties to even
RoundMant(n) ==
    IF BitLen(n) <= F32MantBits THEN n
    ELSE LET g == Pow2(BitLen(n) - F32MantBits)
             q == n \div g
             r == n % g
             up == (2 * r > g) \/ (2 * r = g /\ q % 2 = 1)
         IN (IF up THEN q + 1 ELSE q) * g

\* `span as f32` for a u32 span
U32ToF32(span) == RoundMant(span)

\* f32::round(a * value) as i32, for an integral f32 a >= 0 and a value
\* n / 2^k in [0, 1]: the product is rounded to an f32, then to the nearest
\* integer, halves away from zero
MulRound(a, value) ==
    LET p == RoundMant(a * value.n)
        d == Pow2(value.k)
    IN IF 2 * (p % d) >= d THEN (p \div d) + 1 ELSE p \div d

\* (0.0..=1.0).contains(&value)
InUnitRange(value) == ~value.nan /\ 0 <= value.n /\ value.n <= Pow2(value.k)

\* OwnedDeviceSlot::set_axis_f32, the raw value it stores:
\* lo + f32::round(span as f32 * value) as i32, span = hi.wrapping_sub(lo) as u32
\* (hi - lo exactly, since axis_range returned lo <= hi)
F32ToRaw(lo, hi, value) == lo + MulRound(U32ToF32(hi - lo), value)

\* n / 2^k in lowest terms
RECURSIVE Reduce(_, _)
Reduce(n, k) ==
    IF n = 0 THEN F32(0, 0)
    ELSE IF k > 0 /\ n % 2 = 0 THEN Reduce(n \div 2, k - 1)
    ELSE F32(n, k)

\* binary long division for p / q: n = floor(p * 2^k / q) and r is the
\* remainder; stops at 24 significant bits and rounds, ties to even
RECURSIVE LongDiv(_, _, _, _)
LongDiv(n, r, k, q) ==
    IF n >= Pow2(F32MantBits - 1)
    THEN LET up == (2 * r > q) \/ (2 * r = q /\ n % 2 = 1)
         IN Reduce(IF up THEN n + 1 ELSE n, k)
    ELSE LET bit == IF 2 * r >= q THEN 1 ELSE 0
         IN LongDiv(2 * n + bit, 2 * r - bit * q, k + 1, q)

\* the f32 quotient p / q of two integral f32 with 0 <= p <= q: 0.0 / 0.0 is
\* NaN, 0.0 / q is 0.0
DivF32(p, q) ==
    IF q = 0 THEN NaN
    ELSE IF p = 0 THEN F32(0, 0)
    ELSE LongDiv(p \div q, p % q, 0, q)

\* OwnedDeviceSlot::get_axis_f32: axis_range(axis)?, range.contains(&raw),
\* offset as f32 / span as f32
get_axis_f32(state, axis, minOk, min, maxOk, max) ==
    LET range == axis_range(minOk, min, maxOk, max)
        raw == get_axis_raw(state, axis)
    IN
    IF range.err # "" THEN [err |-> range.err, value |-> NaN]
    ELSE IF ~(range.lo <= raw /\ raw <= range.hi)
    THEN [err |-> "Value", value |-> NaN]
    ELSE [err |-> "",
          value |-> DivF32(U32ToF32(raw - range.lo),
                           U32ToF32(range.hi - range.lo))]

\* OwnedDeviceSlot::get_axis_f32 as a step: it reads the position only
OwnedGetAxisF32(t, h, axis, minOk, min, maxOk, max) ==
    /\ Owns(t, h) /\ h.kind = "OwnedDeviceSlot"
    /\ LET out == get_axis_f32(h.state, axis, minOk, min, maxOk, max) IN
       Return(t, "get_axis_f32", IF out.err # "" THEN out.err ELSE "Ok",
              NoHandle, RangeCalls(t, h, minOk, maxOk))
    /\ UNCHANGED <<LOCKED, REFS, handles, acquired, drvState, assertFailed,
                   closer>>

\* OwnedDeviceSlot::set_axis_f32, its result and the position it leaves:
\* the value is checked first, then the range is asked, then set_axis
set_axis_f32(state, axis, value, minOk, min, maxOk, max) ==
    LET range == axis_range(minOk, min, maxOk, max) IN
    IF ~InUnitRange(value)
    THEN [err |-> "Value", asked |-> FALSE, state |-> state]
    ELSE IF range.err # ""
    THEN [err |-> range.err, asked |-> TRUE, state |-> state]
    ELSE [err |-> "", asked |-> TRUE,
          state |-> set_axis(state, axis, F32ToRaw(range.lo, range.hi, value))]

\* OwnedDeviceSlot::set_axis_f32
OwnedSetAxisF32(t, h, axis, value, minOk, min, maxOk, max) ==
    /\ Owns(t, h) /\ h.kind = "OwnedDeviceSlot"
    /\ LET out == set_axis_f32(h.state, axis, value, minOk, min, maxOk, max) IN
       /\ handles' = WithState(h, out.state)
       /\ Return(t, "set_axis_f32", IF out.err # "" THEN out.err ELSE "Ok",
                 NoHandle,
                 IF out.asked THEN RangeCalls(t, h, minOk, maxOk) ELSE <<>>)
    /\ UNCHANGED <<LOCKED, REFS, acquired, drvState, assertFailed, closer>>

\* ------------------------------------------------------------------ buttons
\* the button words are i32: bit 31 is the sign bit
I32Min == -(Pow2(30)) - Pow2(30)

\* 1 << bit
Mask(bit) == IF bit = WordBits - 1 THEN I32Min ELSE Pow2(bit)

\* (word & (1 << bit)) != 0
TestBit(word, bit) ==
    IF bit = WordBits - 1 THEN word < 0
    ELSE LET low == IF word < 0 THEN (word + Pow2(30)) + Pow2(30) ELSE word
         IN (low \div Pow2(bit)) % 2 = 1

\* word | mask and word & !mask for mask = 1 << bit
SetBit(word, bit, value) ==
    IF value
    THEN IF TestBit(word, bit) THEN word ELSE word + Mask(bit)
    ELSE IF TestBit(word, bit) THEN word - Mask(bit) ELSE word

\* mutant: indices past the last button wrap into the last word
ButtonWordGetWrap(index) ==
    IF index <= 31 THEN [err |-> "", word |-> "lButtons", bit |-> index]
    ELSE IF index <= 63 THEN [err |-> "", word |-> "lButtonsEx1", bit |-> index - 32]
    ELSE IF index <= 95 THEN [err |-> "", word |-> "lButtonsEx2", bit |-> index - 64]
    ELSE [err |-> "", word |-> "lButtonsEx3", bit |-> (index - 96) % WordBits]

\* the match of get_button: index -> (word, bit), None for any other index
ButtonWordGet(index) ==
    IF index <= 31 THEN [err |-> "", word |-> "lButtons", bit |-> index]
    ELSE IF index <= 63 THEN [err |-> "", word |-> "lButtonsEx1", bit |-> index - 32]
    ELSE IF index <= 95 THEN [err |-> "", word |-> "lButtonsEx2", bit |-> index - 64]
    ELSE IF index <= 127 THEN [err |-> "", word |-> "lButtonsEx3", bit |-> index - 96]
    ELSE [err |-> "None", word |-> "", bit |-> 0]

\* mutant: the third arm of the match names the second word
ButtonWordCopied(index) ==
    IF index <= 31 THEN [err |-> "", word |-> "lButtons", bit |-> index]
    ELSE IF index <= 63 THEN [err |-> "", word |-> "lButtonsEx1", bit |-> index - 32]
    ELSE IF index <= 95 THEN [err |-> "", word |-> "lButtonsEx1", bit |-> index - 64]
    ELSE IF index <= 127 THEN [err |-> "", word |-> "lButtonsEx3", bit |-> index - 96]
    ELSE [err |-> "NoSuchButton", word |-> "", bit |-> 0]

\* the match of set_button: index -> (word, bit), NoSuchButton otherwise
ButtonWord(index) ==
    IF index <= 31 THEN [err |-> "", word |-> "lButtons", bit |-> index]
    ELSE IF index <= 63 THEN [err |-> "", word |-> "lButtonsEx1", bit |-> index - 32]
    ELSE IF index <= 95 THEN [err |-> "", word |-> "lButtonsEx2", bit |-> index - 64]
    ELSE IF index <= 127 THEN [err |-> "", word |-> "lButtonsEx3", bit |-> index - 96]
    ELSE [err |-> "NoSuchButton", word |-> "", bit |-> 0]

\* OwnedDeviceSlot::get_button ("None" for an index that is no button)
get_button(state, index) ==
    LET wb == ButtonWordGet(index) IN
    IF wb.err # "" THEN "None"
    ELSE IF TestBit(state[wb.word], wb.bit) THEN "true" ELSE "false"

\* OwnedDeviceSlot::set_button, the position it leaves
set_button(state, index, value) ==
    LET wb == ButtonWord(index) IN
    IF wb.err # "" THEN state
    ELSE [state EXCEPT ![wb.word] = SetBit(@, wb.bit, value)]

\* OwnedDeviceSlot::get_button as a step: it reads the position only
OwnedGetButton(t, h, index) ==
    /\ Owns(t, h) /\ h.kind = "OwnedDeviceSlot"
    /\ Return(t, "get_button", get_button(h.state, index), NoHandle, <<>>)
    /\ UNCHANGED <<LOCKED, REFS, handles, acquired, drvState, assertFailed,
                   closer>>

\* OwnedDeviceSlot::set_button
OwnedSetButton(t, h, index, value) ==
    /\ Owns(t, h) /\ h.kind = "OwnedDeviceSlot"
    /\ handles' = WithState(h, set_button(h.state, index, value))
    /\ Return(t, "set_button",
              IF ButtonWord(index).err # "" THEN ButtonWord(index).err ELSE "Ok",
              NoHandle, <<>>)
    /\ UNCHANGED <<LOCKED, REFS, acquired, drvState, assertFailed, closer>>

\* ------------------------------------------------------- apply and release
\* OwnedDeviceSlot::apply, the driver calls it makes: one UpdateVJD with the
\* handle's id and the whole position
ApplyCalls(t, h, ok) == <<Call(t, "UpdateVJD", to_raw(h.id), Bool(ok), 0)>>

\* the driver's positions after the driver calls of one step
DrvReceive(calls, state, ok) ==
    [id \in SlotIds |->
        IF ok /\ \E i \in DOMAIN calls :
                    calls[i].fn = "UpdateVJD" /\ calls[i].id = id
        THEN state ELSE drvState[id]]

\* mutant: apply hands the position over and starts again from a zeroed one
OwnedApplyConsumes(t, h, accept) ==
    /\ Owns(t, h) /\ h.kind = "OwnedDeviceSlot"
    /\ LET ok == DrvUpdateOk(to_raw(h.id), accept) IN
       /\ drvState' = DrvReceive(ApplyCalls(t, h, ok), h.state, ok)
       /\ Return(t, "apply", IF ok THEN "Ok" ELSE "Failed", h,
                 ApplyCalls(t, h, ok))
    /\ handles' = WithState(h, ZeroedPosition(to_raw(h.id)))
    /\ UNCHANGED <<LOCKED, REFS, acquired, assertFailed, closer>>

\* OwnedDeviceSlot::apply
OwnedApply(t, h, accept) ==
    /\ Owns(t, h) /\ h.kind = "OwnedDeviceSlot"
    /\ LET ok == DrvUpdateOk(to_raw(h.id), accept) IN
       /\ drvState' = DrvReceive(ApplyCalls(t, h, ok), h.state, ok)
       /\ Return(t, "apply", IF ok THEN "Ok" ELSE "Failed", h,
                 ApplyCalls(t, h, ok))
    /\ UNCHANGED <<LOCKED, REFS, handles, acquired, assertFailed, closer>>

\* mutant: Drop for OwnedDeviceSlot forgets the driver
OwnedDropCallsNone(t, h) == <<>>

\* Drop for OwnedDeviceSlot, the driver calls of its body
OwnedDropCalls(t, h) == <<Call(t, "RelinquishVJD", to_raw(h.id), 0, 0)>>

\* mutant: the lock of the slot is released first, RelinquishVJD is called
\* afterwards
OwnedDropLate(t, h) ==
    /\ Owns(t, h) /\ h.kind = "OwnedDeviceSlot"
    /\ REFS' = DropRefs(REFS)
    /\ LOCKED' = (LOCKED /\ ~Unlock(REFS'))
    /\ closer' = IF Unlock(REFS') THEN t ELSE closer
    /\ LET c == Call(t, "RelinquishVJD", to_raw(h.id), 0, 0)
           calls == <<[c EXCEPT !.locked = LOCKED', !.refs = REFS',
                                !.held = @ - 1]>>
       IN
       /\ acquired' = DrvRelinquish(calls)
       /\ Return(t, "OwnedDeviceSlot::drop", "Ok", h, calls)
    /\ handles' = Take(h)
    /\ UNCHANGED <<drvState, assertFailed>>

\* OwnedDeviceSlot::relinquish(self) {} or scope exit: Drop for
\* OwnedDeviceSlot runs, then the slot field (and its lock) is dropped
OwnedDrop(t, h) ==
    /\ Owns(t, h) /\ h.kind = "OwnedDeviceSlot"
    /\ LET calls == OwnedDropCalls(t, h) IN
       /\ acquired' = DrvRelinquish(calls)
       /\ ThenDrop(t, "OwnedDeviceSlot::drop", "Ok", h, calls)
    /\ handles' = Take(h)
    /\ UNCHANGED <<LOCKED, REFS, drvState, assertFailed, closer>>

\* ------------------------------------------------------ the specification
\* what the callers and the driver feed the operations
RawIds == 0..2
AxisInputs == {"X"}
RawInputs == {1, 2}
F32Inputs == {F32(0, 0)}
\* the replies of GetvJoyMaxDevices
CountReply(ok, n) == [ok |-> ok, n |-> n]
CountInputs == {CountReply(FALSE, 0)} \cup {CountReply(TRUE, n) : n \in SlotCounts}
\* the replies of GetVJDAxisMin and GetVJDAxisMax
RangeReply(minOk, min, maxOk, max) ==
    [minOk |-> minOk, min |-> min, maxOk |-> maxOk, max |-> max]
RangeInputs == {RangeReply(TRUE, 0, TRUE, 1)}
ButtonInputs == {0}
ButtonValues == {FALSE}
StatusInputs == {1}

Next ==
    \/ \E t \in Threads : LockNewCas(t)
    \/ \E t \in Threads : LockNewRefs(t)
    \/ \E t \in Threads, enabled \in BOOLEAN : InterfaceNew(t, enabled)
    \/ \E t \in Threads : LockDropRefs(t)
    \/ \E t \in Threads : LockDropStore(t)
    \/ \E t \in Threads, h \in Live : InterfaceClone(t, h)
    \/ \E t \in Threads, h \in Live, raw \in RawIds, c \in CountInputs :
           InterfaceDeviceSlot(t, h, raw, c.ok, c.n)
    \/ \E t \in Threads, h \in Live, c \in CountInputs :
           InterfaceDeviceSlots(t, h, c.ok, c.n)
    \/ \E t \in Threads, h \in Live : SlotsIterNext(t, h)
    \/ \E t \in Threads, h \in Live : SlotsIterNextBack(t, h)
    \/ \E t \in Threads, h \in Live : DropHandle(t, h)
    \/ \E t \in Threads, h \in Live : DeviceSlotClone(t, h)
    \/ \E t \in Threads, h \in Live : DeviceSlotInterface(t, h)
    \/ \E t \in Threads, h \in Live, grant \in BOOLEAN :
           DeviceSlotAcquire(t, h, grant)
    \/ \E t \in Threads, h \in Live, raw \in StatusInputs :
           DeviceSlotStatus(t, h, raw)
    \/ \E t \in Threads, h \in Live, axis \in AxisInputs, value \in RawInputs,
          r \in RangeInputs :
           OwnedSetAxisRaw(t, h, axis, value, r.minOk, r.min, r.maxOk, r.max)
    \/ \E t \in Threads, h \in Live, axis \in AxisInputs, value \in F32Inputs,
          r \in RangeInputs :
           OwnedSetAxisF32(t, h, axis, value, r.minOk, r.min, r.maxOk, r.max)
    \/ \E t \in Threads, h \in Live, index \in ButtonInputs,
          value \in ButtonValues :
           OwnedSetButton(t, h, index, value)
    \/ \E t \in Threads, h \in Live, accept \in BOOLEAN : OwnedApply(t, h, accept)
    \/ \E t \in Threads, h \in Live : OwnedDrop(t, h)

Spec == Init /\ [][Next]_vars

\* ------------------------------------- the device operations, one at a time
\* DeviceSpec starts where Spec can arrive (Interface::new, device_slot(1),
\* drop of the Interface, acquire; then set_axis_raw and set_button calls):
\* thread 1 holds the only token inside an OwnedDeviceSlot of slot 1, whose
\* position is one of DevicePositions.  One operation is then applied, with
\* its arguments and the driver's replies drawn from the sets below.
DeviceThread == 1
DeviceSlotId == 1

\* every axis holds its own value: X = 1, Y = 2, .., Wheel = 16
DistinctAxes ==
    [ZeroedPosition(DeviceSlotId) EXCEPT
        !.wAxisX = 1, !.wAxisY = 2, !.wAxisZ = 3,
        !.wAxisXRot = 4, !.wAxisYRot = 5, !.wAxisZRot = 6,
        !.wSlider = 7, !.wDial = 8,
        !.wAccelerator = 9, !.wAileron = 10, !.wBrake = 11, !.wClutch = 12,
        !.wRudder = 13, !.wSteering = 14, !.wThrottle = 15, !.wWheel = 16]

DevicePositions ==
    { ZeroedPosition(DeviceSlotId),
      \* every button pressed
      [DistinctAxes EXCEPT !.lButtons = -1, !.lButtonsEx1 = -1,
                           !.lButtonsEx2 = -1, !.lButtonsEx3 = -1],
      \* buttons 0, 2, 63, 64 and 97..127 pressed
      [DistinctAxes EXCEPT !.lButtons = 5, !.lButtonsEx1 = I32Min,
                           !.lButtonsEx2 = 1, !.lButtonsEx3 = -2] }

DeviceHandle(state) ==
    [OwnedDeviceSlotValue(DeviceSlotValue(DeviceThread, DeviceSlotId))
        EXCEPT !.state = state]

DeviceInit ==
    /\ LOCKED = TRUE
    /\ REFS = 1
    /\ \E state \in DevicePositions : handles = SetToBag({DeviceHandle(state)})
    /\ pc = [t \in Threads |-> "idle"]
    /\ ctx = [t \in Threads |-> NoCtx]
    /\ acquired = {DeviceSlotId}
    /\ drvState = [id \in SlotIds |-> NoPosition]
    /\ assertFailed = FALSE
    /\ closer = 0
    /\ last = Event(0, "init", "", NoHandle, <<>>)

\* no operation has been applied yet
Fresh == last.op = "init"

\* a span whose f32 is not the span itself: 2^26 - 1 rounds to 2^26
WideMax == 67108863
\* the vJoy driver's usual axis maximum
VJoyAxisMax == 32767
\* an index far past the last button
FarIndex == 65536

ButtonIndices == 0..(NumButtons + 1) \cup {FarIndex}
AxisValues == {-4, -3, 0, 5, 7, 100, 101, WideMax - 1, WideMax}
UnitValues ==
    {F32(0, 0), F32(1, 0), F32(1, 1), F32(1, 2), F32(3, 2), F32(1, 10),
     F32(3, 1), F32(-1, 1), F32(Pow2(23) + 1, 23), NaN}
AxisRanges ==
    {RangeReply(FALSE, 0, TRUE, 100), RangeReply(TRUE, 0, FALSE, 100),
     RangeReply(FALSE, 0, FALSE, 0),
     RangeReply(TRUE, 0, TRUE, 100), RangeReply(TRUE, 100, TRUE, 50),
     RangeReply(TRUE, 5, TRUE, 5), RangeReply(TRUE, -3, TRUE, 7),
     RangeReply(TRUE, 0, TRUE, VJoyAxisMax), RangeReply(TRUE, 0, TRUE, WideMax)}

DeviceNext ==
    \/ \E t \in Threads, h \in Live, index \in ButtonIndices, value \in BOOLEAN :
           Fresh /\ OwnedSetButton(t, h, index, value)
    \/ \E t \in Threads, h \in Live, index \in ButtonIndices :
           Fresh /\ OwnedGetButton(t, h, index)
    \/ \E t \in Threads, h \in Live, axis \in Axes, value \in AxisValues,
          r \in AxisRanges :
           Fresh /\ OwnedSetAxisRaw(t, h, axis, value, r.minOk, r.min, r.maxOk, r.max)
    \/ \E t \in Threads, h \in Live, axis \in Axes, value \in UnitValues,
          r \in AxisRanges :
           Fresh /\ OwnedSetAxisF32(t, h, axis, value, r.minOk, r.min, r.maxOk, r.max)
    \/ \E t \in Threads, h \in Live, axis \in Axes, r \in AxisRanges :
           Fresh /\ OwnedGetAxisF32(t, h, axis, r.minOk, r.min, r.maxOk, r.max)
    \/ \E t \in Threads, h \in Live, axis \in Axes, r \in AxisRanges :
           Fresh /\ DeviceSlotAxisRange(t, h, axis, r.minOk, r.min, r.maxOk, r.max)

DeviceSpec == DeviceInit /\ [][DeviceNext]_vars

\* ------------------------------------------------ the DeviceId conversions
\* the raw ids (every u8) and the indices DeviceId is built from
RawInputsU8 == 0..U8Max
IndexInputs == 0..(U8Max + 2) \cup {FarIndex}

IdNext ==
    \/ \E t \in Threads, raw \in RawInputsU8 :
           Fresh /\ DeviceIdFromRaw(t, raw)
    \/ \E t \in Threads, index \in IndexInputs :
           Fresh /\ DeviceIdFromIndex(t, index)

IdSpec == Init /\ [][IdNext]_vars

\* ------------------------------------------------ the device_slots sequence
\* SlotsSpec starts where Spec can arrive: thread 1 holds the only token,
\* inside an Interface (Interface::new) or inside the iterator of
\* device_slots after the Interface was dropped, next() having run `next`
\* times and next_back() `n - end` times on it, each yielded slot dropped.
\* One operation is then applied.
SlotsIterAt(t, next, end) == [SlotsIterValue(t, end) EXCEPT !.next = next]

\* the ranges next..end an iterator of device_slots can have got to
IterPositions ==
    {p \in (0..U8Max) \X (0..U8Max) :
        p[1] <= p[2] /\ p[2] \in {p[1], p[1] + 1, U8Max}}

SlotsHandles ==
    {InterfaceValue(DeviceThread)}
        \cup {SlotsIterAt(DeviceThread, p[1], p[2]) : p \in IterPositions}

SlotsInit ==
    /\ LOCKED = TRUE
    /\ REFS = 1
    /\ \E h \in SlotsHandles : handles = SetToBag({h})
    /\ pc = [t \in Threads |-> "idle"]
    /\ ctx = [t \in Threads |-> NoCtx]
    /\ acquired = {}
    /\ drvState = [id \in SlotIds |-> NoPosition]
    /\ assertFailed = FALSE
    /\ closer = 0
    /\ last = Event(0, "init", "", NoHandle, <<>>)

\* the replies of GetvJoyMaxDevices, to both ends of what a u8 holds
WideCounts ==
    {CountReply(FALSE, 0)}
        \cup {CountReply(TRUE, n) : n \in {-1, 0, 1, 2, 3, U8Max - 1, U8Max,
                                           U8Max + 1}}

SlotsNext ==
    \/ \E t \in Threads, h \in Live, c \in WideCounts :
           Fresh /\ InterfaceDeviceSlots(t, h, c.ok, c.n)
    \/ \E t \in Threads, h \in Live : Fresh /\ SlotsIterNext(t, h)
    \/ \E t \in Threads, h \in Live : Fresh /\ SlotsIterNextBack(t, h)
    \/ \E t \in Threads : LockDropRefs(t)

SlotsSpec == SlotsInit /\ [][SlotsNext]_vars

\* ================================================================= claims
Quiescent == \A t \in Threads : Idle(t)

\* thread t owns the lineage: it holds a token, or it has won the
\* compare-exchange and not yet built its token, or it is finishing the drop
\* of the last token and has not yet stored false
InLineage(t) == Held(t) > 0 \/ pc[t] \in {"new_refs", "drop_store"}

\* the step is the compare-exchange of VJoyLock::new by thread t, and it won
CasWon(t) == pc[t] = "idle" /\ pc'[t] = "new_refs"

\* the step is the compare-exchange of VJoyLock::new by thread t, and it lost
CasLost(t) ==
    /\ pc[t] = "idle"
    /\ last' # last
    /\ last'.thread = t /\ last'.op = "Interface::new" /\ last'.res = "Locked"

\* C1: in every interleaving of new, clone and drop steps of the threads, at
\* most one thread holds live tokens, and of the threads that race in new()
\* at most one gets past the compare-exchange.
C1_OneThreadHoldsTokens ==
    Cardinality({t \in Threads : Held(t) > 0 \/ pc[t] = "new_refs"}) <= 1

\* a thread holds two tokens (it cloned one) and another thread has just
\* been refused by new()
C1_Witness ==
    \E t, u \in Threads :
        /\ t # u /\ Held(t) >= 2
        /\ last.thread = u /\ last.op = "Interface::new" /\ last.res = "Locked"

\* C2: VJoyLock::new wins its compare-exchange exactly when no lineage is
\* live at that moment; when it wins LOCKED becomes true and the mint sets the
\* live-count to exactly 1; when it loses it returns nothing and LOCKED, REFS
\* and the handles are unchanged.
C2_NewSucceedsIffNoLineage ==
    [][\A t \in Threads :
        /\ CasWon(t) =>
              /\ \A u \in Threads : ~InLineage(u)
              /\ ~LOCKED /\ LOCKED'
        /\ CasLost(t) =>
              /\ \E u \in Threads : InLineage(u)
              /\ LOCKED /\ LOCKED' = LOCKED /\ REFS' = REFS /\ handles' = handles
              /\ last'.val = NoHandle
        /\ (pc[t] = "new_refs" /\ pc'[t] # "new_refs") =>
              /\ REFS' = 1 /\ LiveTokens' = 1 /\ Held(t)' = 1
    ]_vars

\* one thread minted the only live token and another has just been refused
C2_Witness ==
    \E t, u \in Threads :
        /\ t # u /\ Held(t) = 1 /\ REFS = 1 /\ LOCKED
        /\ last.thread = u /\ last.op = "Interface::new" /\ last.res = "Locked"

\* C3: while a token of the lineage is live every new() loses; once every
\* token has been dropped (no thread is inside new or drop) new() wins, on
\* whichever thread it is called.
C3_ReopenAfterLastDrop ==
    [][\A t \in Threads :
        /\ (CasWon(t) \/ CasLost(t)) /\ LiveTokens > 0 => CasLost(t)
        /\ (pc[t] = "idle" /\ Quiescent /\ LiveTokens = 0
              /\ last'.thread = t /\ last'.op \in {"VJoyLock::new", "Interface::new"})
           => CasWon(t)
    ]_vars

\* a thread has won the compare-exchange after another thread's last drop
\* closed the lineage
C3_Witness ==
    \E t \in Threads : pc[t] = "new_refs" /\ closer # 0 /\ closer # t

\* C4: REFS is the number of live tokens; between operations LOCKED is true
\* exactly when REFS > 0; LOCKED goes back to false only in the drop that took
\* REFS to 0.
C4_RefsCountsTokens ==
    /\ [](REFS = LiveTokens)
    /\ [](Quiescent => (LOCKED <=> REFS > 0))
    /\ [][(LOCKED /\ ~LOCKED') =>
            /\ REFS = 0 /\ LiveTokens = 0
            /\ \E t \in Threads : pc[t] = "drop_store" /\ pc'[t] = "idle"
       ]_vars

\* a token was cloned and one of the two has been dropped again
C4_Witness ==
    /\ last.op = "drop" /\ last.res = "Ok"
    /\ REFS >= 1 /\ LOCKED /\ Quiescent

\* the driver calls of the step just taken
LastCalls == {last.calls[i] : i \in DOMAIN last.calls}

\* the live acquired handles of slot id
OwnedOf(id) == {h \in Live : h.kind = "OwnedDeviceSlot" /\ h.id = id}

\* C5: every driver call is made while LOCKED is true and REFS >= 1, by the
\* one thread that holds tokens; the RelinquishVJD of an OwnedDeviceSlot's
\* drop is made while that handle's own token is still counted: the token is
\* released only afterwards.
C5_DriverCallsUnderToken ==
    \A c \in LastCalls :
        /\ c.thread = last.thread
        /\ c.locked /\ c.refs >= 1
        /\ c.held >= 1 /\ c.foreign = 0
        /\ c.fn = "RelinquishVJD" =>
              /\ last.op = "OwnedDeviceSlot::drop"
              /\ pc[last.thread] = "drop_refs"
              /\ LOCKED /\ REFS = c.refs /\ Held(last.thread) = c.held

\* an OwnedDeviceSlot that held the last token has just called RelinquishVJD
\* and its lock is still to be dropped
C5_Witness ==
    /\ last.op = "OwnedDeviceSlot::drop" /\ last.calls # <<>>
    /\ last.calls[1].fn = "RelinquishVJD"
    /\ REFS = 1 /\ LOCKED /\ pc[last.thread] = "drop_refs"

\* C6: Interface::new returns Locked, without asking the driver, whenever a
\* lineage is live; when none is live it asks vJoyEnabled and returns
\* NotAvailable (after dropping its token) if the driver is disabled and
\* otherwise an Interface that holds the single live token.
C6_InterfaceNewOutcome ==
    /\ (last.op = "Interface::new" /\ last.res = "Locked") =>
          /\ last.calls = <<>> /\ last.val = NoHandle
          /\ LOCKED /\ \E u \in Threads : InLineage(u)
    /\ (last.op = "VJoyLock::new" /\ last.res = "cas_ok") =>
          /\ Held(last.thread) = 0
          /\ \A u \in Threads \ {last.thread} : ~InLineage(u)
    /\ (last.op = "Interface::new" /\ last.res = "Ok") =>
          /\ Len(last.calls) = 1 /\ last.calls[1].fn = "vJoyEnabled"
          /\ last.calls[1].reply # 0
          /\ last.val = InterfaceValue(last.thread) /\ last.val \in Live
          /\ LOCKED /\ REFS = 1 /\ LiveTokens = 1 /\ Held(last.thread) = 1
    /\ (last.op = "Interface::new" /\ last.res = "") =>
          /\ Len(last.calls) = 1 /\ last.calls[1].fn = "vJoyEnabled"
          /\ last.calls[1].reply = 0
          /\ last.val = NoHandle /\ handles = EmptyBag
          /\ ctx[last.thread].res = "NotAvailable"
    /\ (last.op = "Interface::new" /\ last.res = "NotAvailable") =>
          /\ last.val = NoHandle /\ handles = EmptyBag
          /\ ~LOCKED /\ REFS = 0 /\ LiveTokens = 0
    /\ \A c \in LastCalls : c.fn = "vJoyEnabled" =>
          last.op = "Interface::new" /\ last.res \in {"Ok", ""}

\* Interface::new has just returned NotAvailable: the driver was disabled
\* and the token it had minted is gone
C6_Witness ==
    last.op = "Interface::new" /\ last.res = "NotAvailable" /\ ~LOCKED

\* C7: at most one OwnedDeviceSlot is live for a DeviceId; an acquire on an
\* id whose OwnedDeviceSlot is live returns Err.
C7_OneOwnerPerSlot ==
    /\ \A h \in Live : h.kind = "OwnedDeviceSlot" =>
          CopiesIn(h, handles) = 1 /\ OwnedOf(h.id) = {h}
    /\ (last.op = "DeviceSlot::acquire" /\ last.res = "Ok") =>
          OwnedOf(last.val.id) = {last.val}
    /\ (last.op = "DeviceSlot::acquire"
          /\ OwnedOf(last.val.id) \ {last.val} # {}) =>
          last.res = "Err" /\ last.val.kind = "DeviceSlot"

\* an acquire has just failed on an id whose OwnedDeviceSlot is live
C7_Witness ==
    /\ last.op = "DeviceSlot::acquire" /\ last.res = "Err"
    /\ OwnedOf(last.val.id) # {}

\* C8: a refused acquire hands back the DeviceSlot it was called on: same
\* id, same thread, no position buffer, REFS and the tokens of the thread as
\* they were at the call; its only driver call is the AcquireVJD, and dropping
\* a DeviceSlot calls no driver function, so no RelinquishVJD follows from the
\* attempt; the handle is live and acquire can be called on it again.
C8_RefusedAcquireReturnsSlot ==
    /\ (last.op = "DeviceSlot::acquire" /\ last.res = "Err") =>
          /\ Len(last.calls) = 1 /\ last.calls[1].fn = "AcquireVJD"
          /\ last.calls[1].reply = 0
          /\ last.val = DeviceSlotValue(last.thread, last.calls[1].id)
          /\ last.val.state = NoPosition
          /\ last.val \in Live
          /\ REFS = last.calls[1].refs
          /\ Held(last.thread) = last.calls[1].held
          /\ Idle(last.thread)
          /\ ENABLED DeviceSlotAcquire(last.thread, last.val, TRUE)
    /\ \A c \in LastCalls : c.fn = "RelinquishVJD" =>
          last.val.kind = "OwnedDeviceSlot"
    /\ (last.op = "drop" /\ last.val.kind = "DeviceSlot") => last.calls = <<>>

\* the driver has just refused a free slot and the DeviceSlot came back
C8_Witness ==
    /\ last.op = "DeviceSlot::acquire" /\ last.res = "Err"
    /\ last.val \in Live /\ OwnedOf(last.val.id) = {}

\* C9: the driver holds a slot for this process exactly while an
\* OwnedDeviceSlot of that id is live: RelinquishVJD is called once, with the
\* handle's id, by the step that consumes the handle and by no other step,
\* whatever set_* and apply returned before; an acquire of the id returns Ok
\* only when no other OwnedDeviceSlot of it is live, and after the relinquish
\* a DeviceSlot of the id acquires it when the driver grants it.
C9_RelinquishOnceOnDrop ==
    /\ acquired = {to_raw(h.id) : h \in {g \in Live : g.kind = "OwnedDeviceSlot"}}
    /\ last.op = "OwnedDeviceSlot::drop" /\ last.res = "" =>
          /\ Len(last.calls) = 1 /\ last.calls[1].fn = "RelinquishVJD"
          /\ last.calls[1].id = to_raw(last.val.id)
          /\ last.val.kind = "OwnedDeviceSlot" /\ last.val \notin Live
          /\ to_raw(last.val.id) \notin acquired
    /\ \A c \in LastCalls : c.fn = "RelinquishVJD" =>
          last.op = "OwnedDeviceSlot::drop" /\ last.res = ""
    /\ \A g \in Live :
          (/\ g.kind = "DeviceSlot" /\ Idle(g.thread)
           /\ to_raw(g.id) \in SlotIds /\ OwnedOf(g.id) = {}) =>
             ENABLED (/\ DeviceSlotAcquire(g.thread, g, TRUE)
                      /\ last'.res = "Ok")

\* an OwnedDeviceSlot whose position was changed has been consumed, its slot
\* is back with the driver and a DeviceSlot of the same id is live to retry
C9_Witness ==
    /\ last.op = "OwnedDeviceSlot::drop" /\ last.res = ""
    /\ last.val.state # ZeroedPosition(to_raw(last.val.id))
    /\ \E g \in Live : g.kind = "DeviceSlot" /\ g.id = last.val.id

\* C10: the driver's position of a slot changes only in a step of apply; an
\* apply makes exactly one UpdateVJD call, with the handle's id, and when it
\* is accepted the driver has the handle's whole position; set_axis_raw,
\* set_axis_f32 and set_button make no UpdateVJD call.
C10_OnlyApplyPushes ==
    /\ [][drvState' # drvState => last'.op = "apply" /\ last'.res = "Ok"]_vars
    /\ [](last.op = "apply" =>
            /\ Len(last.calls) = 1 /\ last.calls[1].fn = "UpdateVJD"
            /\ last.calls[1].id = to_raw(last.val.id)
            /\ last.res = "Ok" => drvState[to_raw(last.val.id)] = last.val.state)
    /\ [](\A c \in LastCalls : c.fn = "UpdateVJD" => last.op = "apply")

\* set_axis_raw has just changed the position of a handle whose slot the
\* driver had received an earlier position for: the driver still has the old one
C10_Witness ==
    /\ last.op = "set_axis_raw" /\ last.res = "Ok"
    /\ \E h \in Live :
          /\ h.kind = "OwnedDeviceSlot" /\ h.thread = last.thread
          /\ drvState[to_raw(h.id)] = ZeroedPosition(to_raw(h.id))
          /\ h.state # drvState[to_raw(h.id)]

\* ----------------------------------------------------- buttons and axes
\* the position held by the OwnedDeviceSlot of slot id among the handles hs
StateOf(hs, id) ==
    (CHOOSE g \in BagToSet(hs) : g.kind = "OwnedDeviceSlot" /\ g.id = id).state

\* the button indices of the position: 0..127
Buttons == 0..(NumButtons - 1)

\* Some(b) as get_button reports it
SomeBool(b) == IF b THEN "true" ELSE "false"

\* C11: for every index i in [0,128) and every b, set_button(i, b) succeeds,
\* get_button(i) then returns b, get_button(j) is what it was for every other
\* j in [0,128), and the axis fields and bDevice are what they were
C11_SetButtonRoundTrip ==
    [][\A t \in Threads, h \in Live, i \in Buttons, b \in BOOLEAN :
          OwnedSetButton(t, h, i, b) =>
              LET post == StateOf(handles', h.id) IN
              /\ last'.res = "Ok"
              /\ get_button(post, i) = SomeBool(b)
              /\ \A j \in Buttons \ {i} :
                    get_button(post, j) = get_button(h.state, j)
              /\ \A a \in Axes : get_axis_raw(post, a) = get_axis_raw(h.state, a)
              /\ post.bDevice = h.state.bDevice]_vars

\* button 65 was pressed where buttons 0, 2, 63, 64 and 97..127 already were
C11_Witness ==
    /\ last.op = "set_button" /\ last.res = "Ok"
    /\ \E h \in Live :
          /\ h.kind = "OwnedDeviceSlot"
          /\ h.state.lButtons = 5 /\ h.state.lButtonsEx1 = I32Min
          /\ h.state.lButtonsEx2 = 3 /\ h.state.lButtonsEx3 = -2
          /\ get_button(h.state, 65) = "true"

\* C12: for every index >= 128 set_button returns NoSuchButton and leaves the
\* whole position as it was, and get_button returns None; for every index in
\* [0,128) set_button succeeds and get_button returns a boolean
C12_ButtonIndexChecked ==
    [][\A t \in Threads, h \in Live, i \in ButtonIndices :
          /\ \A b \in BOOLEAN :
                OwnedSetButton(t, h, i, b) =>
                    IF i >= NumButtons
                    THEN last'.res = "NoSuchButton" /\ handles' = handles
                    ELSE last'.res = "Ok"
          /\ OwnedGetButton(t, h, i) =>
                IF i >= NumButtons
                THEN last'.res = "None"
                ELSE last'.res \in {"true", "false"}]_vars

\* set_button was refused on the position with buttons 0, 2, 63, 64, 97..127
C12_Witness ==
    /\ last.op = "set_button" /\ last.res = "NoSuchButton"
    /\ \E h \in Live :
          /\ h.kind = "OwnedDeviceSlot"
          /\ h.state.lButtons = 5 /\ h.state.lButtonsEx1 = I32Min
          /\ h.state.lButtonsEx2 = 1 /\ h.state.lButtonsEx3 = -2

\* the replies that axis_range turns into a range min..=max
ReportedRanges == {r \in AxisRanges : r.minOk /\ r.maxOk /\ r.min <= r.max}

\* C13: for each of the 16 axes a and every v inside the reported range,
\* set_axis_raw(a, v) succeeds, get_axis_raw(a) is then v and get_axis_raw(b)
\* is what it was for every other axis b; for v outside the range it fails
\* with the Value error
C13_SetAxisRawRoundTrip ==
    [][last'.op = "set_axis_raw" =>
       \A h \in Live, a \in Axes, v \in AxisValues, r \in ReportedRanges :
          OwnedSetAxisRaw(h.thread, h, a, v, r.minOk, r.min, r.maxOk, r.max) =>
              LET post == StateOf(handles', h.id) IN
              IF r.min <= v /\ v <= r.max
              THEN /\ last'.res = "Ok"
                   /\ get_axis_raw(post, a) = v
                   /\ \A b \in Axes \ {a} :
                         get_axis_raw(post, b) = get_axis_raw(h.state, b)
              ELSE last'.res = "Value"]_vars

\* RY was set to 100 where every axis held its own value
C13_Witness ==
    /\ last.op = "set_axis_raw" /\ last.res = "Ok"
    /\ \E h \in Live :
          /\ h.kind = "OwnedDeviceSlot"
          /\ get_axis_raw(h.state, "RY") = 100
          /\ get_axis_raw(h.state, "RX") = 4 /\ get_axis_raw(h.state, "RZ") = 6

\* C14: whenever set_axis_raw or set_axis_f32 returns an error (value outside
\* the allowed range, range query failing, or min > max), the position is
\* exactly what it was before the call: nothing is written, nothing clamped
C14_AxisErrorWritesNothing ==
    [][(/\ last'.op \in {"set_axis_raw", "set_axis_f32"}
        /\ last'.res \in {"Value", "MinFailure", "MaxFailure", "Invalid"})
           => handles' = handles]_vars

\* set_axis_raw refused a value, on a position whose axes were not zero
C14_Witness ==
    /\ last.op = "set_axis_raw" /\ last.res = "Value"
    /\ \E h \in Live :
          /\ h.kind = "OwnedDeviceSlot"
          /\ \A a \in Axes : get_axis_raw(h.state, a) = get_axis_raw(DistinctAxes, a)

ExactRound(span, value) ==
    LET p == span * value.n
        d == Pow2(value.k)
    IN IF 2 * (p % d) >= d THEN (p \div d) + 1 ELSE p \div d

\* C16: for every reported range [min,max] with min <= max and every value in
\* [0.0,1.0], set_axis_f32 stores round(min + value*(max-min)): the stored raw
\* value lies in [min,max], 0.0 stores min, 1.0 stores max and 0.5 on
\* [0,32767] stores 16384; a value outside [0.0,1.0] gets the Value error
C16_SetAxisF32Linear ==
    [][last'.op = "set_axis_f32" =>
       \A h \in Live, a \in Axes, value \in UnitValues, r \in ReportedRanges :
          OwnedSetAxisF32(h.thread, h, a, value, r.minOk, r.min, r.maxOk, r.max) =>
              LET stored == get_axis_raw(StateOf(handles', h.id), a) IN
              IF ~value.nan /\ 0 <= value.n /\ value.n <= Pow2(value.k)
              THEN /\ last'.res = "Ok"
                   /\ stored = r.min + ExactRound(r.max - r.min, value)
                   /\ r.min <= stored /\ stored <= r.max
                   /\ value = F32(0, 0) => stored = r.min
                   /\ value = F32(1, 0) => stored = r.max
                   /\ (value = F32(1, 1) /\ r.min = 0 /\ r.max = VJoyAxisMax)
                         => stored = 16384
              ELSE last'.res = "Value"]_vars

\* 0.0 <= value <= 1.0, for a value n / 2^k with n below 2^24
InUnitInterval(value) ==
    /\ ~value.nan
    /\ 0 <= value.n
    /\ value.k >= F32MantBits \/ value.n <= Pow2(value.k)

\* value is the f32 nearest to offset / span (spans small enough to multiply)
IsQuotient(value, offset, span) ==
    LET d == value.n * span - offset * Pow2(value.k)
    IN 2 * (IF d < 0 THEN -d ELSE d) <= span

\* spans for which IsQuotient stays inside the integers of the checker
SmallSpan == 100

\* C17: for every range accepted by axis_range (min <= max, min == max
\* included) and every stored raw value in [min,max], get_axis_f32 succeeds
\* and returns (raw - min)/(max - min), a value in [0.0,1.0]; when the stored
\* raw value is outside [min,max] it fails with the Value error
C17_GetAxisF32Normalized ==
    [][last'.op = "get_axis_f32" =>
       \A h \in Live, a \in Axes, r \in ReportedRanges :
          OwnedGetAxisF32(h.thread, h, a, r.minOk, r.min, r.maxOk, r.max) =>
              LET raw == get_axis_raw(h.state, a)
                  out == get_axis_f32(h.state, a, r.minOk, r.min, r.maxOk, r.max)
              IN
              IF r.min <= raw /\ raw <= r.max
              THEN /\ last'.res = "Ok"
                   /\ InUnitInterval(out.value)
                   /\ (r.min < r.max /\ r.max - r.min <= SmallSpan)
                         => IsQuotient(out.value, raw - r.min, r.max - r.min)
              ELSE last'.res = "Value"]_vars

\* the position after get_axis_f32(a) and set_axis_f32(a, its result) under
\* the reported range r; nothing is written when the read fails
RoundTrip(state, a, r) ==
    LET f == get_axis_f32(state, a, r.minOk, r.min, r.maxOk, r.max) IN
    IF f.err # "" THEN state
    ELSE set_axis_f32(state, a, f.value, r.minOk, r.min, r.maxOk, r.max).state

\* the cases whose f32 products stay inside the integers of the checker:
\* a small span, or the wide range with 0 or one of its two largest values
Computable(r, v) ==
    \/ r.max - r.min <= SmallSpan
    \/ r.max = WideMax /\ v \in {0, WideMax - 1, WideMax}

Distance(x, y) == IF x < y THEN y - x ELSE x - y

\* C18: for every range [min,max] and every raw v in it, set_axis_raw(v), then
\* get_axis_f32, then set_axis_f32 of the result leaves a raw value within 1
\* unit of v; and a raw value produced by set_axis_f32 is not changed by a
\* further read-normalized / write-normalized cycle
C18_NormalizedRoundTrip ==
    [][/\ (last'.op = "set_axis_raw" /\ last'.res = "Ok") =>
          \A h \in Live, a \in Axes, v \in AxisValues, r \in ReportedRanges :
             (/\ Computable(r, v)
              /\ OwnedSetAxisRaw(h.thread, h, a, v, r.minOk, r.min, r.maxOk, r.max))
                 => Distance(get_axis_raw(RoundTrip(StateOf(handles', h.id), a, r), a),
                             v) <= 1
       /\ (last'.op = "set_axis_f32" /\ last'.res = "Ok") =>
          \A h \in Live, a \in Axes, value \in UnitValues, r \in ReportedRanges :
             (/\ r.max - r.min <= SmallSpan \/ r.max = WideMax
              /\ OwnedSetAxisF32(h.thread, h, a, value, r.minOk, r.min, r.maxOk, r.max))
                 => RoundTrip(StateOf(handles', h.id), a, r) = StateOf(handles', h.id)
      ]_vars

\* ------------------------------------------------------------- device ids
\* C19: for a driver slot count n, device_slot(id) returns a slot handle for
\* every raw id with 1 <= id <= n (id == n included) and returns nothing,
\* without an error, for id == 0 and for every id > n
C19_DeviceSlotById ==
    [][last'.op = "Interface::device_slot" =>
       \A h \in Live, raw \in RawIds, c \in CountInputs :
          (/\ num_slots(c.ok, c.n).err = ""
           /\ InterfaceDeviceSlot(h.thread, h, raw, c.ok, c.n)) =>
              IF 1 <= raw /\ raw <= c.n
              THEN last'.res = "Some" /\ to_raw(last'.val.id) = raw
              ELSE last'.res = "None"]_vars

\* C20: from_raw(r) succeeds iff r # 0; from_index(i) succeeds exactly for
\* 0 <= i <= 254 and yields the id i + 1 (never zero, never wrapped), and fails
\* with TooLarge for every larger i; and to_index(from_index(i)) = i for
\* every accepted i
C20_DeviceIdConversions ==
    [][/\ \A t \in Threads, raw \in RawInputsU8 :
             DeviceIdFromRaw(t, raw) =>
                 /\ last'.res = "Ok" <=> raw # 0
                 /\ last'.res = "Ok" => to_raw(last'.val.id) = raw
       /\ \A t \in Threads, index \in IndexInputs :
             DeviceIdFromIndex(t, index) =>
                 IF index <= U8Max - 1
                 THEN /\ last'.res = "Ok"
                      /\ to_raw(last'.val.id) = index + 1
                      /\ last'.val.id \in DeviceIds
                      /\ to_index(last'.val.id) = index
                 ELSE last'.res = "TooLarge"]_vars

\* ------------------------------------------------------------ device_slots
\* C21: for every slot count n that num_slots accepts (0 <= n <= 255),
\* device_slots yields exactly n unacquired handles with the ids 1, 2, .., n
\* in ascending order, each once, without panicking: the call asks the driver
\* for the count (every call does) and returns the range 0..n; next() on a
\* range next..end yields the slot of id next + 1 and moves to next + 1..end,
\* next_back() yields the slot of id end and moves to next..end - 1, and both
\* yield nothing on an empty range
C21_DeviceSlotsYieldsAll ==
    /\ [][/\ \A h \in Live, c \in WideCounts :
                InterfaceDeviceSlots(h.thread, h, c.ok, c.n) =>
                    /\ Len(last'.calls) = 1
                    /\ last'.calls[1].fn = "GetvJoyMaxDevices"
                    /\ (c.ok /\ 0 <= c.n /\ c.n <= U8Max) =>
                          /\ last'.res = "Ok"
                          /\ last'.val = SlotsIterAt(h.thread, 0, c.n)
                          /\ last'.val \in BagToSet(handles')
          /\ \A h \in Live :
                SlotsIterNext(h.thread, h) =>
                    IF h.next < h.end
                    THEN /\ last'.res = "Some"
                         /\ last'.val = DeviceSlotValue(h.thread, h.next + 1)
                         /\ handles' = Take(h)
                               (+) SetToBag({SlotsIterAt(h.thread, h.next + 1, h.end)})
                               (+) SetToBag({last'.val})
                    ELSE last'.res = "None" /\ handles' = handles
          /\ \A h \in Live :
                SlotsIterNextBack(h.thread, h) =>
                    IF h.next < h.end
                    THEN /\ last'.res = "Some"
                         /\ last'.val = DeviceSlotValue(h.thread, h.end)
                         /\ handles' = Take(h)
                               (+) SetToBag({SlotsIterAt(h.thread, h.next, h.end - 1)})
                               (+) SetToBag({last'.val})
                    ELSE last'.res = "None" /\ handles' = handles
         ]_vars
    /\ [](last.res # "panic")
    /\ [](\A h \in Live : h.kind = "SlotsIter" =>
             0 <= h.next /\ h.next <= h.end /\ h.end <= U8Max)

\* next() has just yielded the last slot, id 255, of a sequence of 255
C21_Witness ==
    /\ last.op = "SlotsIter::next" /\ last.res = "Some"
    /\ to_raw(last.val.id) = U8Max
    /\ SlotsIterAt(last.thread, U8Max, U8Max) \in Live

\* ------------------------------------------------- the position and apply
\* the values of an axis field that the tag of a position is tried against
TagProbes == {-1, 0, 1, U8Max}

\* C22: a freshly acquired OwnedDeviceSlot has its 16 axis fields and its 128
\* buttons zero and bDevice equal to its DeviceId; in every state reached
\* through set_axis_raw, set_axis_f32, set_button and apply bDevice still is
\* the handle's DeviceId (no write to an axis or a button changes it), and
\* apply addresses UpdateVJD to that same id
C22_PositionTaggedWithId ==
    /\ \A h \in Live : h.kind = "OwnedDeviceSlot" =>
          /\ h.state.bDevice = to_raw(h.id)
          /\ \A a \in Axes, v \in TagProbes :
                set_axis(h.state, a, v).bDevice = to_raw(h.id)
          /\ \A i \in Buttons, b \in BOOLEAN :
                set_button(h.state, i, b).bDevice = to_raw(h.id)
    /\ (last.op = "DeviceSlot::acquire" /\ last.res = "Ok") =>
          /\ last.val.kind = "OwnedDeviceSlot" /\ last.val \in Live
          /\ last.val.state.bDevice = to_raw(last.val.id)
          /\ \A a \in Axes : get_axis_raw(last.val.state, a) = 0
          /\ \A i \in Buttons : get_button(last.val.state, i) = "false"
    /\ last.op = "apply" =>
          /\ Len(last.calls) = 1 /\ last.calls[1].fn = "UpdateVJD"
          /\ last.calls[1].id = to_raw(last.val.id)
          /\ last.calls[1].id = last.val.state.bDevice
          /\ last.val \in Live

\* the driver has just accepted the position of slot 2, which is no longer
\* the zeroed position the handle was acquired with
C22_Witness ==
    /\ last.op = "apply" /\ last.res = "Ok"
    /\ to_raw(last.val.id) = 2 /\ last.val.state.bDevice = 2
    /\ last.val.state # ZeroedPosition(2)
    /\ drvState[2] = last.val.state

\* ------------------------------------------------------- the live counter
\* C23: REFS is read or written by a thread only while that thread owns the
\* lineage, after its winning compare-exchange and before its release store
\* (LOCKED is true before and after the access); no other thread owns the
\* lineage or stands before an access of its own at that moment; and the
\* assertions REFS == 0 at the mint and REFS > 0 at the drop never fail
C23_CounterConfinedToLineage ==
    /\ [][REFS' # REFS \/ (\E t \in Threads :
                              pc[t] \in {"new_refs", "drop_refs"} /\ pc'[t] # pc[t])
            => /\ last'.thread \in Threads
               /\ InLineage(last'.thread)
               /\ pc[last'.thread] \in {"idle", "new_refs", "drop_refs"}
               /\ LOCKED /\ LOCKED'
               /\ \A u \in Threads \ {last'.thread} :
                     ~InLineage(u) /\ pc[u] \notin {"new_refs", "drop_refs"}
       ]_vars
    /\ [](~assertFailed)
    /\ [](\A t \in Threads : pc[t] \in {"new_refs", "drop_refs"} => LOCKED)

\* a thread has just taken the counter to 0 and has not yet stored false:
\* the flag still keeps every other thread out
C23_Witness ==
    /\ last.op = "VJoyLock::drop" /\ last.res = "unlock"
    /\ pc[last.thread] = "drop_store"
    /\ REFS = 0 /\ LOCKED /\ handles = EmptyBag

\* ------------------------------------------------- a failed Interface::new
\* C24: a failed Interface::new leaves no lineage behind.  NotAvailable is
\* returned by the step that ends the drop of the minted token: afterwards the
\* live-count is 0, the flag is closed, no handle exists, and the
\* compare-exchange of a new Interface::new wins on any thread.  Locked leaves
\* the live-count, the flag and the handles of the existing lineage unchanged.
C24_FailedNewLeavesNoLineage ==
    /\ []((last.op = "Interface::new" /\ last.res = "NotAvailable") =>
            /\ ~LOCKED /\ REFS = 0 /\ LiveTokens = 0 /\ handles = EmptyBag
            /\ Idle(last.thread) /\ closer = last.thread
            /\ \A u \in Threads : Idle(u) =>
                  ENABLED (LockNewCas(u) /\ pc'[u] = "new_refs"))
    /\ [][\A t \in Threads :
            /\ (last' # last /\ last'.thread = t /\ last'.op = "Interface::new"
                  /\ last'.res = "NotAvailable") =>
                  /\ pc[t] = "drop_store" /\ ctx[t].res = "NotAvailable"
                  /\ REFS = 0 /\ LOCKED /\ ~LOCKED'
            /\ CasLost(t) =>
                  /\ REFS' = REFS /\ LiveTokens' = LiveTokens
                  /\ LOCKED' /\ handles' = handles
                  /\ \A u \in Threads : Held(u)' = Held(u)
       ]_vars

\* Interface::new of a thread has returned NotAvailable and that thread's
\* drop of the minted token is what closed the flag
C24_Witness ==
    /\ last.op = "Interface::new" /\ last.res = "NotAvailable"
    /\ closer = last.thread /\ Quiescent
    /\ REFS = 0 /\ handles = EmptyBag

\* ---------------------------------------------- the live-count and handles
\* the number of live values of one kind
CountKind(kind) == Copies({h \in Live : h.kind = kind})

\* C25: between operations the live-count equals the number of live objects
\* that embed a token: Interface values, DeviceSlot values (the one inside
\* each OwnedDeviceSlot included) and un-dropped iterators of device_slots;
\* acquire, granted or refused, leaves the count as it was at the call; and
\* once every such object has been dropped the flag is closed and the
\* compare-exchange of Interface::new wins again
C25_LiveCountIsHandleCount ==
    /\ Quiescent =>
          /\ REFS = CountKind("Interface") + CountKind("DeviceSlot")
                      + CountKind("OwnedDeviceSlot") + CountKind("SlotsIter")
          /\ REFS = NumLive
    /\ last.op = "DeviceSlot::acquire" =>
          /\ REFS = last.calls[1].refs
          /\ Held(last.thread) = last.calls[1].held
          /\ last.val \in Live
          /\ last.val.kind = IF last.res = "Ok" THEN "OwnedDeviceSlot"
                                               ELSE "DeviceSlot"
    /\ (Quiescent /\ handles = EmptyBag) =>
          /\ ~LOCKED /\ REFS = 0
          /\ \A u \in Threads : ENABLED (LockNewCas(u) /\ pc'[u] = "new_refs")

\* a slot yielded by the iterator of device_slots has just been acquired,
\* the Interface is gone and the iterator is still live: two tokens
C25_Witness ==
    /\ last.op = "DeviceSlot::acquire" /\ last.res = "Ok"
    /\ CountKind("SlotsIter") = 1 /\ CountKind("OwnedDeviceSlot") = 1
    /\ CountKind("Interface") = 0
    /\ REFS = 2

\* the operations that write the position of an OwnedDeviceSlot
SetOps == {"set_axis_raw", "set_axis_f32", "set_button"}

\* C26: apply never modifies the position, whether the driver accepts the
\* update or rejects it (ApplyError::Failed); the snapshot it hands to the
\* driver is the handle's position, which is the zeroed position of the
\* acquisition changed by the successful set_* calls and by no other step;
\* and two applies in a row hand the driver the same snapshot
C26_ApplyReadsOnly ==
    [][/\ \A h \in Live, accept \in BOOLEAN :
             OwnedApply(h.thread, h, accept) =>
                 /\ handles' = handles
                 /\ last'.val = h
                 /\ last'.res = IF accept THEN "Ok" ELSE "Failed"
                 /\ last'.res = "Ok" => drvState'[to_raw(h.id)] = h.state
                 /\ last'.res = "Failed" => drvState' = drvState
       /\ \A h \in Live :
             (/\ h.kind = "OwnedDeviceSlot"
              /\ OwnedOf(h.id)' # {} /\ OwnedOf(h.id)' # {h}) =>
                 last'.op \in SetOps /\ last'.res = "Ok" /\ last'.thread = h.thread
       /\ (/\ last.op = "apply" /\ last'.op = "apply"
           /\ last'.val.id = last.val.id) =>
                 last'.val.state = last.val.state
      ]_vars

\* the driver accepted an earlier apply; the position was changed since and
\* the apply of the changed position has just been rejected
C26_Witness ==
    /\ last.op = "apply" /\ last.res = "Failed"
    /\ last.val \in Live
    /\ last.val.state # ZeroedPosition(to_raw(last.val.id))
    /\ drvState[to_raw(last.val.id)] # last.val.state
    /\ drvState[to_raw(last.val.id)] # NoPosition

====
